---------------------------- MODULE Spec2Model ----------------------------
(***************************************************************************)
(* Model of generate_decision_sheet.py: the single build pass of           *)
(* generate_pdf (logo, title, wrapped body paragraphs, the decision-topic  *)
(* field, the 2x2 grid of fields, the footers, finalisation) and the       *)
(* paragraph wrapper it calls.                                             *)
(*                                                                         *)
(* Lengths are integers in hundredths of a point: one inch is 7200 units,  *)
(* so every constant of the source (0.18 inch, 0.15 inch, ...) and every   *)
(* Helvetica glyph width at size 10 (1/1000 em) is a whole number.         *)
(* A string is a sequence of one-character strings.                        *)
(***************************************************************************)
EXTENDS Integers, Sequences, FiniteSets, TLC

\* ---------------------------------------------------------------- bounds
\* Longest text handed to the wrapper in SpecWrap.
MaxLen == 5
\* Longest text whose rendered width is used as a maximum width in SpecWrap.
MaxWidthLen == 3
\* A body paragraph of the build is 0..MaxCopies copies of the source's text.
MaxCopies == 2

\* ------------------------------------------------------- units, page size
inch == 7200

letter == <<(85 * inch) \div 10, 11 * inch>>

width == letter[1]

height == letter[2]

left_margin == (75 * inch) \div 100

right_margin == (75 * inch) \div 100

content_width == width - left_margin - right_margin

\* ------------------------------------------------------------------ text
\* Helvetica glyph widths in 1/1000 em (the standard font's metrics), for
\* the characters the body text uses.
HelveticaWidths ==
    [c \in {" ", ".", ",", "f", "t", "I"} |-> 278] @@
    [c \in {"-", "(", ")", "r"} |-> 333] @@
    [c \in {"i", "j", "l"} |-> 222] @@
    [c \in {"c", "k", "s", "v", "x", "y", "z"} |-> 500] @@
    [c \in {"a", "b", "d", "e", "g", "h", "n", "o", "p", "q", "u"} |-> 556] @@
    [c \in {"w"} |-> 722] @@
    [c \in {"m", "M"} |-> 833] @@
    [c \in {"T"} |-> 611] @@
    [c \in {"W"} |-> 944]

body_font == "Helvetica"

body_size == 10

RECURSIVE GlyphSum(_, _)
GlyphSum(s, i) ==
    IF i > Len(s) THEN 0 ELSE HelveticaWidths[s[i]] + GlyphSum(s, i + 1)

\* stringWidth(text, fontName, fontSize): the sum of the glyph widths scaled
\* by the font size (no kerning), in hundredths of a point.
stringWidth(s, fontName, fontSize) == (GlyphSum(s, 1) * fontSize) \div 10

Whitespace == {" ", "\n"}

\* str.split(sep): the pieces between occurrences of sep, empty pieces kept.
SplitOn(s, sep) ==
    LET cuts == {i \in 1..Len(s) : s[i] = sep}
        bounds == {0} \cup cuts \cup {Len(s) + 1}
        EndOf(b) == CHOOSE e \in bounds : e > b /\ \A f \in bounds : f > b => e <= f
        StartNo(k) == CHOOSE b \in bounds \ {Len(s) + 1} :
                          Cardinality({a \in bounds : a < b}) = k - 1
    IN  [k \in 1..(Cardinality(cuts) + 1) |->
            SubSeq(s, StartNo(k) + 1, EndOf(StartNo(k)) - 1)]

\* str.split(): the maximal runs of non-whitespace characters, in order.
SplitWords(s) ==
    LET IsWs(i) == i < 1 \/ i > Len(s) \/ s[i] \in Whitespace
        starts == {i \in 1..Len(s) : ~IsWs(i) /\ IsWs(i - 1)}
        StartNo(k) == CHOOSE b \in starts :
                          Cardinality({a \in starts : a < b}) = k - 1
        EndOf(b) == CHOOSE e \in b..Len(s) :
                          IsWs(e + 1) /\ \A j \in b..e : ~IsWs(j)
    IN  [k \in 1..Cardinality(starts) |-> SubSeq(s, StartNo(k), EndOf(StartNo(k)))]

\* ' '.join(O)
RECURSIVE Join(_, _)
Join(O, i) ==
    IF i > Len(O) THEN <<>>
    ELSE IF i = Len(O) THEN O[i]
    ELSE O[i] \o <<" ">> \o Join(O, i + 1)

\* A mutant of Fits: the separating space is left out of the measurement.
FitsNoSpace(w, ws, lt, mW, O) == w + lt <= mW \/ O = <<>>

\* The test of the wrapper's loop: the word goes on the current line.
Fits(w, ws, lt, mW, O) == w + ws + lt <= mW \/ O = <<>>

\* A mutant of SplitStep: the word that does not fit is dropped.
SplitStepDrop(st, t, mW) ==
    LET ws == stringWidth(<<" ">>, body_font, body_size)
        lt == stringWidth(t, body_font, body_size)
    IN  IF Fits(st.w, ws, lt, mW, st.O)
        THEN [L |-> st.L, O |-> Append(st.O, t), w |-> st.w + ws + lt]
        ELSE [L |-> Append(st.L, Join(st.O, 1)), O |-> <<>>, w |-> -ws]

\* One iteration of the wrapper's loop over the words of a line.
SplitStep(st, t, mW) ==
    LET ws == stringWidth(<<" ">>, body_font, body_size)
        lt == stringWidth(t, body_font, body_size)
    IN  IF Fits(st.w, ws, lt, mW, st.O)
        THEN [L |-> st.L, O |-> Append(st.O, t), w |-> st.w + ws + lt]
        ELSE [L |-> Append(st.L, Join(st.O, 1)), O |-> <<t>>, w |-> lt]

\* The wrapper's loop over the words of a line, from word i on.  The test on
\* next is always true; it makes the step's value be computed before the
\* next iteration starts.
RECURSIVE SplitLoop(_, _, _, _)
SplitLoop(st, words, i, mW) ==
    IF i > Len(words) THEN st
    ELSE LET next == SplitStep(st, words[i], mW)
         IN  IF next.w = next.w THEN SplitLoop(next, words, i + 1, mW) ELSE st

\* The greedy wrap of one newline-free piece of text.
SimpleSplitLine(txt, mW) ==
    LET ws == stringWidth(<<" ">>, body_font, body_size)
        end == SplitLoop([L |-> <<>>, O |-> <<>>, w |-> -ws], SplitWords(txt), 1, mW)
    IN  IF end.O # <<>> THEN Append(end.L, Join(end.O, 1)) ELSE end.L

RECURSIVE SplitPieces(_, _, _)
SplitPieces(pieces, i, mW) ==
    IF i > Len(pieces) THEN <<>>
    ELSE SimpleSplitLine(pieces[i], mW) \o SplitPieces(pieces, i + 1, mW)

\* simpleSplit(text, fontName, fontSize, maxWidth) for a positive maxWidth:
\* the text is cut at its newlines and every piece is wrapped greedily.
simpleSplit(txt, fontName, fontSize, maxWidth) ==
    SplitPieces(SplitOn(txt, "\n"), 1, maxWidth)

\* --------------------------------------------------- the build's constants
logo_width == 2 * inch

logo_height == (15 * inch) \div 10

logo_x == (width - logo_width) \div 2

\* A mutant of logo_y: the half-inch offset is added instead of subtracted.
logo_y_added == height - logo_height + (5 * inch) \div 10

logo_y == height - logo_height - (5 * inch) \div 10

\* A mutant of title_y: the title is placed a tenth of that below the top.
title_y_high == height - (23 * inch) \div 100

title_y == height - (23 * inch) \div 10

line_height == (18 * inch) \div 100

paragraph_gap == (15 * inch) \div 100

decision_height == (5 * inch) \div 10

label_offset == (25 * inch) \div 100

column_gap == (5 * inch) \div 10

\* A mutant of col_width: the division by two is left out.
col_width_undivided == content_width - column_gap

col_width == (content_width - column_gap) \div 2

row_height == (13 * inch) \div 10

row_spacing == (6 * inch) \div 10

footer_y_1 == (6 * inch) \div 10

footer_y_2 == (45 * inch) \div 100

categories ==
    << <<"Advantages of Staying the Same", "AdvStay">>,
       <<"Disadvantages of Staying the Same", "DisadvStay">>,
       <<"Advantages of Changing", "AdvChange">>,
       <<"Disadvantages of Changing", "DisadvChange">> >>

\* A mutant of GridIndex: column-major enumeration.
GridIndexColMajor(r, c) == c * 2 + r + 1

\* index = row * 2 + col (1-based here, as sequences are).
GridIndex(r, c) == r * 2 + c + 1

\* A mutant of x_pos: the column gap is left out.
x_pos_nogap(c) == left_margin + c * col_width

x_pos(c) == left_margin + c * (col_width + column_gap)

\* A mutant of FieldY: the field sits above its label's baseline.
FieldYAbove(cy, h) == cy + label_offset

\* The bottom edge of a field of height h whose label is drawn at cy.
FieldY(cy, h) == cy - label_offset - h

\* A mutant of NextRowY: the next row starts at the bottom edge of this one.
NextRowYNoSpacing(fy) == fy

\* The cursor after a row whose fields have bottom edge fy.
NextRowY(fy) == fy - row_spacing

\* A mutant of DecisionCursor: the cursor stays at the decision field's label.
DecisionCursorAtLabel(dy) == dy + decision_height + label_offset

\* The cursor below the decision field whose bottom edge is dy.
DecisionCursor(dy) == dy - (4 * inch) \div 10

para_1 ==
    <<
       "T", "h", "i", "s", " ", "w", "o", "r", "k", "s", "h", "e", "e", "t", " ", "c",
       "a", "n", " ", "b", "e", " ", "u", "s", "e", "d", " ", "t", "o", " ", "h", "e",
       "l", "p", " ", "y", "o", "u", " ", "m", "a", "k", "e", " ", "a", " ", "d", "e",
       "c", "i", "s", "i", "o", "n", " ", "o", "n", " ", "w", "h", "e", "t", "h", "e",
       "r", " ", "y", "o", "u", " ", "w", "a", "n", "t", " ", "t", "o", " ", "m", "a",
       "k", "e", " ", "c", "e", "r", "t", "a", "i", "n", " ", "c", "h", "a", "n", "g",
       "e", "s", " ", "i", "n", " ", "y", "o", "u", "r", " ", "l", "i", "f", "e", " ",
       "(", "e", ".", "g", ".", " ", "s", "t", "o", "p", "p", "i", "n", "g", " ", "s",
       "o", "m", "e", " ", "o", "l", "d", " ", "b", "e", "h", "a", "v", "i", "o", "u",
       "r", "s", " ", "o", "r", " ", "d", "o", "i", "n", "g", " ", "s", "o", "m", "e",
       "t", "h", "i", "n", "g", " ", "n", "e", "w", ")", "." >>

para_2 ==
    <<
       "I", "t", " ", "i", "s", " ", "b", "e", "s", "t", " ", "t", "o", " ", "c", "o",
       "m", "p", "l", "e", "t", "e", " ", "e", "a", "c", "h", " ", "s", "e", "c", "t",
       "i", "o", "n", ",", " ", "e", "v", "e", "n", " ", "i", "f", " ", "i", "t", " ",
       "s", "e", "e", "m", "s", " ", "t", "h", "a", "t", " ", "s", "o", "m", "e", " ",
       "o", "f", " ", "t", "h", "e", " ", "a", "n", "s", "w", "e", "r", "s", " ", "i",
       "n", " ", "d", "i", "f", "f", "e", "r", "e", "n", "t", " ", "s", "e", "c", "t",
       "i", "o", "n", "s", " ", "a", "r", "e", " ", "s", "i", "m", "i", "l", "a", "r",
       ".", " ", "M", "a", "k", "e", " ", "s", "u", "r", "e", " ", "y", "o", "u", " ",
       "i", "n", "c", "l", "u", "d", "e", " ", "b", "o", "t", "h", " ", "s", "h", "o",
       "r", "t", "-", "t", "e", "r", "m", " ", "a", "n", "d", " ", "l", "o", "n", "g",
       "-", "t", "e", "r", "m", " ", "a", "d", "v", "a", "n", "t", "a", "g", "e", "s",
       " ", "a", "n", "d", " ", "d", "i", "s", "a", "d", "v", "a", "n", "t", "a", "g",
       "e", "s", "." >>

\* The two literals of the source.
source_paragraphs == <<para_1, para_2>>

RECURSIVE Copies(_, _)
Copies(p, k) ==
    IF k = 0 THEN <<>>
    ELSE IF k = 1 THEN p
    ELSE p \o <<" ">> \o Copies(p, k - 1)

\* The bodies a build is run with: the source's own paragraphs and, to vary
\* the number of wrapped lines, shorter and longer ones made of its text.
ParagraphInputs ==
    {<<Copies(para_1, a), Copies(para_2, b)>> : a \in 0..MaxCopies, b \in 0..MaxCopies}

\* A local that has not been assigned yet.
None == "None"

\* ------------------------------------------------------------------ state
VARIABLES
    pc,                 \* position in generate_pdf, or in the wrapper run
    paragraphs,         \* the body paragraphs of this build
    para_i,             \* position of "for para in paragraphs"
    lines,              \* the wrapped lines of the current paragraph
    line_i,             \* position of "for line in lines"
    text_y,             \* baseline of the next body line
    decision_field_y,   \* bottom edge of the DecisionTopic field
    current_y,          \* the grid's vertical cursor
    row,                \* position of "for row in range(2)"
    col,                \* position of "for col in range(2)"
    field_y,            \* bottom edge of the last grid field
    c_strings,          \* drawString / drawCentredString calls on the canvas
    c_fields,           \* acroForm.textfield calls on the canvas
    c_image,            \* drawImage call on the canvas (at most one)
    saved,              \* the output file has been written
    raised,             \* the exception generate_pdf raised, if any
    text,               \* SpecWrap: the text handed to the wrapper
    maxWidth            \* SpecWrap: the maximum width handed to the wrapper

vars == <<pc, paragraphs, para_i, lines, line_i, text_y, decision_field_y,
          current_y, row, col, field_y, c_strings, c_fields, c_image, saved,
          raised, text, maxWidth>>

cursorVars == <<text_y, decision_field_y, current_y, row, col, field_y>>

wrapVars == <<text, maxWidth>>

Str(op, x, y, s) == [op |-> op, x |-> x, y |-> y, text |-> s]

Field(name, x, y, w, h) == [name |-> name, x |-> x, y |-> y, width |-> w, height |-> h]

\* ------------------------------------------------------------------- build
Init ==
    /\ pc = "logo"
    /\ paragraphs \in ParagraphInputs
    /\ para_i = None
    /\ lines = None
    /\ line_i = None
    /\ text_y = None
    /\ decision_field_y = None
    /\ current_y = None
    /\ row = None
    /\ col = None
    /\ field_y = None
    /\ c_strings = <<>>
    /\ c_fields = <<>>
    /\ c_image = <<>>
    /\ saved = FALSE
    /\ raised = None
    /\ text = <<>>
    /\ maxWidth = content_width

\* The logo is read and drawn.
DrawLogo ==
    /\ pc = "logo"
    /\ c_image' = <<[x |-> logo_x, y |-> logo_y,
                     width |-> logo_width, height |-> logo_height]>>
    /\ pc' = "title"
    /\ UNCHANGED <<paragraphs, para_i, lines, line_i, c_strings, c_fields,
                   saved, raised>>
    /\ UNCHANGED cursorVars
    /\ UNCHANGED wrapVars

\* A mutant of LogoError: the exception leaves generate_pdf.
LogoErrorPropagates == [pc |-> "failed", raised |-> "Exception"]

\* except Exception: pass
LogoError == [pc |-> "title", raised |-> None]

\* Reading or drawing the logo raises; the handler skips the logo.
SkipLogo ==
    /\ pc = "logo"
    /\ pc' = LogoError.pc
    /\ raised' = LogoError.raised
    /\ UNCHANGED <<paragraphs, para_i, lines, line_i, c_strings, c_fields,
                   c_image, saved>>
    /\ UNCHANGED cursorVars
    /\ UNCHANGED wrapVars

\* The title, and the starting position of the body text.
DrawTitle ==
    /\ pc = "title"
    /\ c_strings' = Append(c_strings,
            Str("drawCentredString", width \div 2, title_y,
                "Decision Balance Sheet"))
    /\ text_y' = title_y - (4 * inch) \div 10
    /\ para_i' = 1
    /\ pc' = "para"
    /\ UNCHANGED <<paragraphs, lines, line_i, c_fields, c_image, saved, raised,
                   decision_field_y, current_y, row, col, field_y>>
    /\ UNCHANGED wrapVars

\* for para in paragraphs: lines = simpleSplit(...)
WrapParagraph ==
    /\ pc = "para"
    /\ para_i <= Len(paragraphs)
    /\ lines' = simpleSplit(paragraphs[para_i], body_font, body_size, content_width)
    /\ line_i' = 1
    /\ pc' = "line"
    /\ UNCHANGED <<paragraphs, para_i, c_strings, c_fields, c_image, saved, raised>>
    /\ UNCHANGED cursorVars
    /\ UNCHANGED wrapVars

\* for line in lines: draw it and move down one line.
DrawLine ==
    /\ pc = "line"
    /\ line_i <= Len(lines)
    /\ c_strings' = Append(c_strings,
            Str("drawString", left_margin, text_y, lines[line_i]))
    /\ text_y' = text_y - line_height
    /\ line_i' = line_i + 1
    /\ UNCHANGED <<pc, paragraphs, para_i, lines, c_fields, c_image, saved, raised,
                   decision_field_y, current_y, row, col, field_y>>
    /\ UNCHANGED wrapVars

\* Extra space between paragraphs.
EndParagraph ==
    /\ pc = "line"
    /\ line_i > Len(lines)
    /\ text_y' = text_y - paragraph_gap
    /\ para_i' = para_i + 1
    /\ pc' = "para"
    /\ UNCHANGED <<paragraphs, lines, line_i, c_strings, c_fields, c_image, saved,
                   raised, decision_field_y, current_y, row, col, field_y>>
    /\ UNCHANGED wrapVars

\* The "The Decision Topic" label and field, and the cursor below it.
DecisionField ==
    /\ pc = "para"
    /\ para_i > Len(paragraphs)
    /\ c_strings' = Append(c_strings,
            Str("drawString", left_margin, text_y, "The Decision Topic"))
    /\ decision_field_y' = FieldY(text_y, decision_height)
    /\ c_fields' = Append(c_fields,
            Field("DecisionTopic", left_margin, decision_field_y',
                  content_width, decision_height))
    /\ current_y' = DecisionCursor(decision_field_y')
    /\ row' = 0
    /\ col' = 0
    /\ pc' = "grid"
    /\ UNCHANGED <<paragraphs, para_i, lines, line_i, c_image, saved, raised,
                   text_y, field_y>>
    /\ UNCHANGED wrapVars

\* One pass of the inner loop: the label and field of (row, col).
GridField ==
    /\ pc = "grid"
    /\ row < 2
    /\ col < 2
    /\ LET entry == categories[GridIndex(row, col)]
       IN  /\ c_strings' = Append(c_strings,
                    Str("drawString", x_pos(col), current_y, entry[1]))
           /\ field_y' = FieldY(current_y, row_height)
           /\ c_fields' = Append(c_fields,
                    Field(entry[2], x_pos(col), field_y', col_width, row_height))
    /\ col' = col + 1
    /\ UNCHANGED <<pc, paragraphs, para_i, lines, line_i, c_image, saved, raised,
                   text_y, decision_field_y, current_y, row>>
    /\ UNCHANGED wrapVars

\* After finishing a row, move down for the next row.
RowEnd ==
    /\ pc = "grid"
    /\ row < 2
    /\ col = 2
    /\ current_y' = NextRowY(field_y)
    /\ row' = row + 1
    /\ col' = 0
    /\ UNCHANGED <<pc, paragraphs, para_i, lines, line_i, c_strings, c_fields,
                   c_image, saved, raised, text_y, decision_field_y, field_y>>
    /\ UNCHANGED wrapVars

\* The two footer lines.
Footer ==
    /\ pc = "grid"
    /\ row = 2
    /\ c_strings' = c_strings \o
            << Str("drawCentredString", width \div 2, footer_y_1,
                   "Based on the original by Practical Happiness - www.practicalhappiness.co.uk"),
               Str("drawCentredString", width \div 2, footer_y_2,
                   "Edited by Kasey Robinson from Hackeroos - www.hackeroos.com.au") >>
    /\ pc' = "save"
    /\ UNCHANGED <<paragraphs, para_i, lines, line_i, c_fields, c_image, saved, raised>>
    /\ UNCHANGED cursorVars
    /\ UNCHANGED wrapVars

\* A mutant of SaveOutcome: the write error is swallowed.
SaveOutcomeSwallowed(writable) ==
    IF writable THEN [pc |-> "done", saved |-> TRUE, raised |-> None]
    ELSE [pc |-> "done", saved |-> FALSE, raised |-> None]

\* showPage and save: the file is written, or the write error propagates.
SaveOutcome(writable) ==
    IF writable THEN [pc |-> "done", saved |-> TRUE, raised |-> None]
    ELSE [pc |-> "failed", saved |-> FALSE, raised |-> "OSError"]

\* Finalize the page; the output destination is writable.
Save ==
    /\ pc = "save"
    /\ pc' = SaveOutcome(TRUE).pc
    /\ saved' = SaveOutcome(TRUE).saved
    /\ raised' = SaveOutcome(TRUE).raised
    /\ UNCHANGED <<paragraphs, para_i, lines, line_i, c_strings, c_fields, c_image>>
    /\ UNCHANGED cursorVars
    /\ UNCHANGED wrapVars

\* Finalize the page; the output destination cannot be written.
SaveFails ==
    /\ pc = "save"
    /\ pc' = SaveOutcome(FALSE).pc
    /\ saved' = SaveOutcome(FALSE).saved
    /\ raised' = SaveOutcome(FALSE).raised
    /\ UNCHANGED <<paragraphs, para_i, lines, line_i, c_strings, c_fields, c_image>>
    /\ UNCHANGED cursorVars
    /\ UNCHANGED wrapVars

Next ==
    \/ DrawLogo
    \/ SkipLogo
    \/ DrawTitle
    \/ WrapParagraph
    \/ DrawLine
    \/ EndParagraph
    \/ DecisionField
    \/ GridField
    \/ RowEnd
    \/ Footer
    \/ Save
    \/ SaveFails

Spec == Init /\ [][Next]_vars

\* ----------------------------------------------------- the wrapper, alone
WrapAlphabet == {" ", "\n", "i", "W"}

Texts(n) == UNION {[1..k -> WrapAlphabet] : k \in 0..n}

\* The maximum widths tried: the rendered width of every short line, and one
\* unit less, so that a line fits exactly and just fails to fit.
WrapWidths ==
    LET short == {t \in Texts(MaxWidthLen) : t # <<>> /\ \A i \in 1..Len(t) : t[i] # "\n"}
    IN  {stringWidth(t, body_font, body_size) - d : t \in short, d \in {0, 1}}

InitWrap ==
    /\ pc = "wrap"
    /\ text \in Texts(MaxLen)
    /\ maxWidth \in WrapWidths
    /\ paragraphs = <<>>
    /\ para_i = None
    /\ lines = None
    /\ line_i = None
    /\ text_y = None
    /\ decision_field_y = None
    /\ current_y = None
    /\ row = None
    /\ col = None
    /\ field_y = None
    /\ c_strings = <<>>
    /\ c_fields = <<>>
    /\ c_image = <<>>
    /\ saved = FALSE
    /\ raised = None

\* lines = simpleSplit(text, font, size, maxWidth)
WrapText ==
    /\ pc = "wrap"
    /\ lines' = simpleSplit(text, body_font, body_size, maxWidth)
    /\ pc' = "wrapped"
    /\ UNCHANGED <<paragraphs, para_i, line_i, c_strings, c_fields, c_image,
                   saved, raised>>
    /\ UNCHANGED cursorVars
    /\ UNCHANGED wrapVars

NextWrap == WrapText

SpecWrap == InitWrap /\ [][NextWrap]_vars

\* ----------------------------------------------------------- the claims
\* The margins the claims measure against; the source sets only the left
\* and the right one, both to this value.
top_margin == (75 * inch) \div 100

bottom_margin == (75 * inch) \div 100

\* Two rectangles share no point.
Disjoint(a, b) ==
    \/ a.x + a.width < b.x
    \/ b.x + b.width < a.x
    \/ a.y + a.height < b.y
    \/ b.y + b.height < a.y

\* A rectangle lies in the page minus its margins.
InPrintable(r) ==
    /\ left_margin <= r.x
    /\ r.x + r.width <= width - right_margin
    /\ bottom_margin <= r.y
    /\ r.y + r.height <= height - top_margin

\* A point lies in the page minus its margins.
PointInPrintable(x, y) ==
    /\ left_margin <= x
    /\ x <= width - right_margin
    /\ bottom_margin <= y
    /\ y <= height - top_margin

FieldNames == <<"DecisionTopic", "AdvStay", "DisadvStay", "AdvChange", "DisadvChange">>

AllFieldsCreated ==
    /\ Len(c_fields) = 5
    /\ \A k \in 1..5 : c_fields[k].name = FieldNames[k]

IsFooter(s) == s.op = "drawCentredString" /\ s.y \in {footer_y_1, footer_y_2}

IsBodyLine(k) ==
    /\ c_strings[k].op = "drawString"
    /\ k > 1
    /\ \A j \in 1..k : c_strings[j].text # "The Decision Topic"

\* C1: no two of the text fields created so far intersect, whatever the
\* number of lines the two paragraphs wrapped to.
C1_FieldsDisjoint ==
    \A i, j \in 1..Len(c_fields) : i # j => Disjoint(c_fields[i], c_fields[j])

\* C1 witness: a completed build with all five fields whose paragraphs
\* wrapped to another number of lines than the source's.
C1_Witness ==
    /\ pc = "done"
    /\ AllFieldsCreated
    /\ paragraphs # source_paragraphs
    /\ Len(c_strings) > 12

\* C2: with the source's paragraphs, every field rectangle lies inside the
\* printable area.
C2_FieldsInPrintable ==
    paragraphs = source_paragraphs =>
        \A k \in 1..Len(c_fields) : InPrintable(c_fields[k])

\* C2 witness: a completed build of the source's paragraphs, five fields.
C2_Witness ==
    /\ pc = "done"
    /\ paragraphs = source_paragraphs
    /\ AllFieldsCreated

\* C3 as stated: the placed image's rectangle lies within the margins on
\* both axes.
C3_ImageInPrintable ==
    c_image # <<>> => InPrintable(c_image[1])

\* C3 amended: the placed image is 2.0in x 1.5in, horizontally centred and
\* within the left and right margins; its bottom edge is above the bottom
\* margin and its top edge is 0.5in below the top of the page.
C3_ImageBox ==
    c_image # <<>> =>
        LET r == c_image[1]
        IN  /\ r.width = 2 * inch
            /\ 2 * r.height = 3 * inch
            /\ 2 * r.x + r.width = width
            /\ left_margin <= r.x
            /\ r.x + r.width <= width - right_margin
            /\ bottom_margin <= r.y
            /\ 2 * (r.y + r.height) = 2 * height - inch

\* C3 witness: the image has been placed.
C3_Witness == Len(c_image) = 1 /\ pc = "done"

\* C4 as stated: every string drawn, the footers included, and every field
\* is positioned within the margins on both axes.
C4_AllInPrintable ==
    paragraphs = source_paragraphs =>
        /\ \A k \in 1..Len(c_strings) : PointInPrintable(c_strings[k].x, c_strings[k].y)
        /\ \A k \in 1..Len(c_fields) : InPrintable(c_fields[k])

\* C4 amended: with the source's paragraphs, the title, every body line
\* (from its start to its end), every label and every field is within the
\* margins on both axes; the two footer lines are centred on the page at
\* 0.6in and 0.45in from the bottom, below the 0.75in bottom margin.
C4_AllButFootersInPrintable ==
    paragraphs = source_paragraphs =>
        /\ \A k \in 1..Len(c_strings) :
              IF IsFooter(c_strings[k])
              THEN /\ 2 * c_strings[k].x = width
                   /\ c_strings[k].y < bottom_margin
                   /\ c_strings[k].y > 0
                   /\ k > Len(c_strings) - 2
              ELSE /\ PointInPrintable(c_strings[k].x, c_strings[k].y)
                   /\ IsBodyLine(k) =>
                         c_strings[k].x + stringWidth(c_strings[k].text, body_font, body_size)
                            <= width - right_margin
        /\ \A k \in 1..Len(c_fields) : InPrintable(c_fields[k])

\* C4 witness: a completed build of the source's paragraphs: the title, four
\* body lines, five labels and both footers are drawn.
C4_Witness ==
    /\ pc = "done"
    /\ paragraphs = source_paragraphs
    /\ Len(c_strings) = 12
    /\ IsFooter(c_strings[11])
    /\ IsFooter(c_strings[12])
    /\ IsBodyLine(2)
    /\ IsBodyLine(5)

\* The rendered width of a line.
LineWidth(line) == stringWidth(line, body_font, body_size)

\* C5: every line the wrapper produces is at most the maximum width wide,
\* except a line that is one single word wider than the maximum; every such
\* word of the text is a line of its own, unchanged, and the wrapper
\* raises nothing.
C5_LinesFit ==
    pc = "wrapped" =>
        /\ raised = None
        /\ \A k \in 1..Len(lines) :
              \/ LineWidth(lines[k]) <= maxWidth
              \/ SplitWords(lines[k]) = <<lines[k]>>
        /\ LET words == SplitWords(Join(lines, 1))
               wide == {i \in 1..Len(words) : LineWidth(words[i]) > maxWidth}
           IN  /\ Len(words) = Len(SplitWords(text))
               /\ \A i \in wide :
                     /\ words[i] = SplitWords(text)[i]
                     /\ \E k \in 1..Len(lines) :
                           /\ lines[k] = words[i]
                           /\ Len(SplitWords(Join(SubSeq(lines, 1, k), 1))) = i

\* C5 witness: a wrap that produced a line of one word wider than the
\* maximum, a line of two words that fits exactly, and a third line.
C5_Witness ==
    /\ pc = "wrapped"
    /\ Len(lines) >= 2
    /\ \E k \in 1..Len(lines) :
          LineWidth(lines[k]) > maxWidth /\ SplitWords(lines[k]) = <<lines[k]>>
    /\ \E k \in 1..Len(lines) :
          LineWidth(lines[k]) = maxWidth /\ Len(SplitWords(lines[k])) = 2

\* C6: the lines joined with single spaces are the words of the text joined
\* with single spaces: no word is dropped, duplicated, split or reordered.
C6_JoinReconstructs ==
    pc = "wrapped" => Join(lines, 1) = Join(SplitWords(text), 1)

\* C6 witness: a wrap into several lines, one of them of several words, of
\* a text whose whitespace is not single spaces.
C6_Witness ==
    /\ pc = "wrapped"
    /\ Len(lines) >= 2
    /\ \E k \in 1..Len(lines) : Len(SplitWords(lines[k])) >= 2
    /\ Join(SplitWords(text), 1) # text

\* The layout a build arrives at, written out from the number n1 of lines
\* of the first paragraph and n2 of the second.
RefTop(n1, n2) ==
    height - (27 * inch) \div 10 - (n1 + n2) * ((18 * inch) \div 100)
           - 2 * ((15 * inch) \div 100)

RefFields(n1, n2) ==
    LET top == RefTop(n1, n2)
        Row(r) == top - (27 * inch) \div 10 - r * ((215 * inch) \div 100)
        W == (325 * inch) \div 100
        H == (13 * inch) \div 10
        X0 == (75 * inch) \div 100
        X1 == (45 * inch) \div 10
    IN  << Field("DecisionTopic", X0, top - (75 * inch) \div 100, 7 * inch, inch \div 2),
           Field("AdvStay", X0, Row(0), W, H),
           Field("DisadvStay", X1, Row(0), W, H),
           Field("AdvChange", X0, Row(1), W, H),
           Field("DisadvChange", X1, Row(1), W, H) >>

RefStringPositions(n1, n2) ==
    LET top == RefTop(n1, n2)
        X0 == (75 * inch) \div 100
        X1 == (45 * inch) \div 10
        mid == (425 * inch) \div 100
        first == (83 * inch) \div 10
        LineY(k) == first - (k - 1) * ((18 * inch) \div 100)
                          - (IF k > n1 THEN (15 * inch) \div 100 ELSE 0)
        LabelY(r) == top - (115 * inch) \div 100 - r * ((215 * inch) \div 100)
    IN  << <<mid, (87 * inch) \div 10>> >>
        \o [k \in 1..(n1 + n2) |-> <<X0, LineY(k)>>]
        \o << <<X0, top>>,
              <<X0, LabelY(0)>>, <<X1, LabelY(0)>>,
              <<X0, LabelY(1)>>, <<X1, LabelY(1)>>,
              <<mid, (6 * inch) \div 10>>, <<mid, (45 * inch) \div 100>> >>

StringPositions == [k \in 1..Len(c_strings) |-> <<c_strings[k].x, c_strings[k].y>>]

WrappedLines(p) == Len(simpleSplit(p, body_font, body_size, content_width))

\* C7: a failing logo raises nothing and the build goes on: it never fails
\* before the title, paragraphs, fields and footers are placed, and a build
\* completed without the image has the five fields, the title, the body
\* lines, the labels and the footers exactly where a build with the image
\* has them.
C7_LogoFailureHarmless ==
    /\ pc \in {"title", "para", "line", "grid", "save"} => raised = None
    /\ pc = "failed" => Len(c_strings) > 0 /\ AllFieldsCreated
    /\ pc = "done" =>
          LET n1 == WrappedLines(paragraphs[1])
              n2 == WrappedLines(paragraphs[2])
          IN  /\ AllFieldsCreated
              /\ c_fields = RefFields(n1, n2)
              /\ StringPositions = RefStringPositions(n1, n2)
              /\ raised = None

\* C7 witness: a build completed without the image.
C7_Witness ==
    /\ pc = "done"
    /\ c_image = <<>>
    /\ AllFieldsCreated
    /\ saved

\* Everything but the finalisation has been done.
AllPlaced ==
    /\ AllFieldsCreated
    /\ Len(c_strings) >= 8
    /\ c_strings[1].text = "Decision Balance Sheet"
    /\ IsFooter(c_strings[Len(c_strings) - 1])
    /\ IsFooter(c_strings[Len(c_strings)])

\* C8: a build ends with the file written and nothing raised, or with an
\* error raised and no file written; it raises only in the finalisation
\* step, after everything is placed, only once, and a write error is
\* never swallowed: a build that ends without an error has written the file.
C8_SingleFailure ==
    /\ [](pc = "done" => saved /\ raised = None /\ AllPlaced)
    /\ [](pc = "failed" => ~saved /\ raised # None /\ AllPlaced)
    /\ [](pc \notin {"done", "failed"} => ~saved /\ raised = None)
    /\ [][(pc' = "failed" /\ pc # "failed") => pc = "save"]_vars
    /\ [][(pc \in {"done", "failed"}) => (vars' = vars)]_vars

\* C8 witness: the build failed in the finalisation step.
C8_Witness ==
    /\ pc = "failed"
    /\ raised = "OSError"
    /\ AllPlaced

GridNames == <<"AdvStay", "DisadvStay", "AdvChange", "DisadvChange">>

\* C9: the grid fields are created row by row, left column first, and get
\* the names AdvStay, DisadvStay, AdvChange, DisadvChange in that order;
\* each is (content_width - column_gap) / 2 wide, a left-column field
\* starts at left_margin and a right-column field at left_margin +
\* col_width + column_gap, so that it ends exactly at width - right_margin.
C9_GridOrder ==
    /\ \A i, j \in 1..4 : i # j => GridNames[i] # GridNames[j]
    /\ \A k \in 2..Len(c_fields) :
          LET f == c_fields[k]
              r == (k - 2) \div 2
              c == (k - 2) % 2
          IN  /\ f.name = GridNames[k - 1]
              /\ 2 * f.width = content_width - column_gap
              /\ c = 0 => f.x = left_margin
              /\ c = 1 => /\ f.x = left_margin + f.width + column_gap
                          /\ f.x + f.width = width - right_margin
                          /\ f.y = c_fields[k - 1].y
              /\ (r = 1 /\ c = 0) => f.y < c_fields[k - 1].y
    /\ pc = "grid" => Len(c_fields) = 1 + 2 * row + col

\* C9 witness: all four grid fields have been created.
C9_Witness ==
    /\ Len(c_fields) = 5
    /\ c_fields[5].name = "DisadvChange"
    /\ pc = "save"

\* C10: inside a row the cursor does not move, so both fields of a row get
\* the same y and the height 1.3in; at the end of each row, and only there,
\* it goes down by 0.25in + 1.3in + 0.6in; no step of the build moves the
\* vertical cursor up.
C10_CursorSteps ==
    /\ [](\A k \in {2, 4} : k + 1 <= Len(c_fields) =>
              /\ c_fields[k].y = c_fields[k + 1].y
              /\ c_fields[k].height = c_fields[k + 1].height
              /\ 10 * c_fields[k].height = 13 * inch)
    /\ [][(pc = "grid" /\ pc' = "grid") =>
              IF row' = row
              THEN col' = col + 1 /\ current_y' = current_y
              ELSE /\ col = 2
                   /\ row' = row + 1
                   /\ 100 * (current_y - current_y') = (25 + 130 + 60) * inch]_vars
    /\ [][(pc = "grid" /\ pc' # "grid") => current_y' = current_y]_vars
    /\ [][(pc \in {"para", "line"} /\ pc' \in {"para", "line"}) => text_y' <= text_y]_vars
    /\ [][(pc = "para" /\ pc' = "grid") => current_y' < text_y /\ text_y' = text_y]_vars

\* C10 witness: both rows are finished.
C10_Witness ==
    /\ pc = "grid"
    /\ row = 2
    /\ Len(c_fields) = 5

=============================================================================
